---- MODULE Spec2Model ----
(***************************************************************************)
(* Model of the list synchronisation and batch mutation engine of          *)
(* Python-Sharepoint-Connector: the snapshot diff (utils/methods.py), the  *)
(* batch submission loops (sharepoint/list/list_batch_operations.py), the  *)
(* single-item write loops (sharepoint/list/list.py,                       *)
(* sharepoint/sharepoint_operations.py), the paged read get_list_items,    *)
(* the schema introspection functions, prepare_data and the TaskManager    *)
(* (utils/task_manager.py).                                                *)
(***************************************************************************)
EXTENDS Integers, Sequences, FiniteSets, TLC

\* ------------------------------------------------------------------ bounds
\* primary-key values are 1..MaxKey, Modified timestamps are 1..MaxTime
MaxKey == 2
MaxTime == 2
\* a run submits at most MaxItems operations, in batches of at most MaxBatch
MaxItems == 5
MaxBatch == 3

VARIABLES
    a,          \* get_list_diff: the source snapshot (list of dicts)
    b,          \* get_list_diff: the destination snapshot (list of dicts)
    inserts,    \* get_list_diff: first returned list
    updates,    \* get_list_diff: second returned list
    kinds,      \* for every entry of updates, the line that appended it
    b_before,   \* the destination snapshot as it was when the diff was called
    prev,       \* the result of the diff that ApplyDiff applied
    dpc         \* position of the diff scenario

diffVars == <<a, b, inserts, updates, kinds, b_before, prev, dpc>>

VARIABLES
    op,             \* *_items_in_batches: "delete", "insert" or "update"
    items,          \* the operations to submit, by item id, in input order
    batch_size,
    batch_start,    \* i, the loop variable of range(0, len(items), batch_size)
    batch_no,
    batch_items,    \* the slice the current batch body was built from
    batch_body,     \* the multipart body built for the current batch, as lines
    request_digest, \* the digest fetched for the current batch
    issued,         \* how many digests the contextinfo endpoint has issued
    metadata_reads, \* how many list-metadata reads the run has issued
    submitted,      \* the $batch POSTs: operations, digest, response status
    processed,      \* the batch numbers logged as processed successfully
    berror,         \* the exception that left the function, "" if none
    bpc             \* position of the batch run

batchVars == <<op, items, batch_size, batch_start, batch_no, batch_items, batch_body,
               request_digest, issued, metadata_reads, submitted, processed, berror,
               bpc>>

\* ------------------------------------------------------------ Python values
\* A Python value is tagged with its type: str, int, NoneType, or the
\* datetime an ISO string parses to (v is its position on the time line).
PyStr(s) == [t |-> "str", v |-> s]
PyInt(n) == [t |-> "int", v |-> n]
PyIso(n) == [t |-> "iso", v |-> n]
None == [t |-> "none", v |-> 0]

\* x == y in Python
PyEq(x, y) == x.t = y.t /\ x.v = y.v

\* a truth test that lets the empty string through
Truthy_KeepEmpty(x) == x.t # "none"

\* bool(value), the test of `if value:`
Truthy(x) ==
    CASE x.t = "str" -> x.v # ""
      [] x.t = "int" -> x.v # 0
      [] x.t = "iso" -> TRUE
      [] OTHER -> FALSE

\* str.lower() on the strings the model uses
Lower(s) ==
    CASE s = "KPMG India" -> "kpmg india"
      [] s = "True" -> "true"
      [] s = "False" -> "false"
      [] s = "Yes" -> "yes"
      [] OTHER -> s

\* 'kpmg' in s, for a lower-cased s
ContainsKpmg(s) == s \in {"kpmg", "kpmg india"}

\* the largest integer int() and str() are applied to
MaxNum == 9

\* str(n) for an int
StrOf(n) == ToString(n)

\* int(s) succeeds exactly for the decimal strings
IsNumeric(s) == \E n \in 0..MaxNum : ToString(n) = s
IntOf(s) == CHOOSE n \in 0..MaxNum : ToString(n) = s

\* datetime.fromisoformat
FromIsoFormat(x) == x.v

str_to_bool(string_value) == Lower(string_value.v) \in {"true", "1", "yes", "y"}

\* ------------------------------------------------------------------- dicts
EmptyDict == [k \in {} |-> None]
Put(d, k, v) == [x \in (DOMAIN d) \cup {k} |-> IF x = k THEN v ELSE d[x]]
\* d.update(o)
DictUpdate(d, o) ==
    [x \in (DOMAIN d) \cup (DOMAIN o) |-> IF x \in DOMAIN o THEN o[x] ELSE d[x]]

\* the order in which create_simplified_list fills an item, which is the
\* order item.items() iterates in
FieldOrder ==
    <<"Id", "Requirement Id", "Effort", "Customer Name", "Current Status",
      "Update Flag", "Modified", "Attachment List">>

ItemKeys(item) == SelectSeq(FieldOrder, LAMBDA f : f \in DOMAIN item)

primary_key == "Requirement Id"

\* the mapping get_required_columns returns for the destination list
required_destination_cols ==
    [f \in {"Requirement Id", "Customer Name", "Current Status", "Effort",
            "Update Flag"} |->
        CASE f = "Requirement Id" -> [name |-> "Requirement_x0020_Id", dtype |-> "Number"]
          [] f = "Customer Name" -> [name |-> "Customer_x0020_Name", dtype |-> "Text"]
          [] f = "Current Status" -> [name |-> "Current_x0020_Status", dtype |-> "Choice"]
          [] f = "Effort" -> [name |-> "Effort", dtype |-> "Number"]
          [] OTHER -> [name |-> "Update_x0020_Flag", dtype |-> "Text"]]

InternalName(f) == required_destination_cols[f].name

\* ------------------------------------------------------------ prepare_data
\* the type conversion of one value; ok = FALSE when the conversion raises
Coerce(data_type, value) ==
    CASE data_type = "Text" ->
            IF value.t = "str" THEN [ok |-> TRUE, v |-> value]
            ELSE [ok |-> TRUE, v |-> PyStr(StrOf(value.v))]
      [] data_type = "Number" ->
            IF value.t = "int" THEN [ok |-> TRUE, v |-> value]
            ELSE IF value.t = "str" /\ IsNumeric(value.v)
                 THEN [ok |-> TRUE, v |-> PyInt(IntOf(value.v))]
                 ELSE [ok |-> FALSE, v |-> None]
      [] OTHER -> [ok |-> TRUE, v |-> value]

RECURSIVE PrepLoop(_, _, _, _)
PrepLoop(item_dict, required_col_dict, ks, insert_item) ==
    IF ks = <<>> THEN insert_item
    ELSE
        LET key == Head(ks)
            value == item_dict[key]
        IN  IF key \in {"Attachment List", "Id", "Attachments"}
            THEN PrepLoop(item_dict, required_col_dict, Tail(ks),
                          Put(insert_item, key, value))
            ELSE IF ~Truthy(value) \/ key = "Modified"
            THEN PrepLoop(item_dict, required_col_dict, Tail(ks), insert_item)
            ELSE IF key \notin DOMAIN required_col_dict
            THEN insert_item            \* KeyError, caught: what was built so far
            ELSE
                LET c == Coerce(required_col_dict[key].dtype, value)
                IN  IF ~c.ok
                    THEN insert_item    \* ValueError, caught: what was built so far
                    ELSE PrepLoop(item_dict, required_col_dict, Tail(ks),
                                  Put(insert_item, required_col_dict[key].name, c.v))

prepare_data(item_dict, required_col_dict) ==
    PrepLoop(item_dict, required_col_dict, ItemKeys(item_dict), EmptyDict)

\* ----------------------------------------------------------- get_list_diff
KeyOf(item) == item[primary_key].v
KeySet(lst) == {KeyOf(lst[n]) : n \in 1..Len(lst)}
\* dict_b[title]: the last item of the list that carries the key
Lookup(lst, title) ==
    lst[CHOOSE n \in 1..Len(lst) :
            /\ KeyOf(lst[n]) = title
            /\ \A m \in (n+1)..Len(lst) : KeyOf(lst[m]) # title]

\* the test of line 109 without the customer filter
Eligible_NoFilter(item_a) == "Customer Name" \in DOMAIN item_a

\* the sync-eligibility test of line 109
Eligible(item_a) ==
    /\ "Customer Name" \in DOMAIN item_a
    /\ Truthy(item_a["Customer Name"])
    /\ ContainsKpmg(Lower(item_a["Customer Name"].v))

\* item_a[key] != item_b.get(key)
Differs(item_a, item_b, key) ==
    IF key \in DOMAIN item_b THEN ~PyEq(item_a[key], item_b[key])
    ELSE item_a[key].t # "none"

\* need_update with >= in place of >
NeedUpdate_NotStrict(item_a, item_b) ==
    /\ FromIsoFormat(item_a["Modified"]) >= FromIsoFormat(item_b["Modified"])
    /\ \E key \in DOMAIN item_a :
          key \notin {"Id", "Modified"} /\ Differs(item_a, item_b, key)

\* lines 120-128: need_update
NeedUpdate(item_a, item_b) ==
    /\ FromIsoFormat(item_a["Modified"]) > FromIsoFormat(item_b["Modified"])
    /\ \E key \in DOMAIN item_a :
          key \notin {"Id", "Modified"} /\ Differs(item_a, item_b, key)

\* line 135: the test that starts the pass over the destination
TombstoneDue(ins, bb, aa) == Len(ins) + Len(bb) > Len(aa)

\* line 140: title not in dict_a
MissingInSource_Any(item_b, aa) == TRUE
MissingInSource(item_b, aa) == KeyOf(item_b) \notin KeySet(aa)

\* lines 137-144: the pass over the destination; it writes the closed status
\* into the items of b themselves
RECURSIVE TombstonePass(_, _, _)
TombstonePass(st, aa, j) ==
    IF j > Len(st.b) THEN st
    ELSE IF ~MissingInSource(st.b[j], aa) THEN TombstonePass(st, aa, j + 1)
    ELSE
        LET item_b == Put(st.b[j], "Current Status", PyStr("Closed"))
        IN  TombstonePass(
                [st EXCEPT !.b = [st.b EXCEPT ![j] = item_b],
                           !.updates = Append(@, prepare_data(item_b, required_destination_cols)),
                           !.kinds = Append(@, "close")],
                aa, j + 1)

\* lines 109-133: what one source item contributes
SourceStep(st, dict_b, item_a) ==
    IF ~Eligible(item_a) THEN st
    ELSE IF KeyOf(item_a) \notin KeySet(dict_b)
    THEN [st EXCEPT !.inserts = Append(@,
            DictUpdate(prepare_data(item_a, required_destination_cols),
                       prepare_data(("Update Flag" :> PyStr("True")),
                                    required_destination_cols)))]
    ELSE
        LET item_b == Lookup(dict_b, KeyOf(item_a))
        IN  IF str_to_bool(item_b["Update Flag"]) /\ NeedUpdate(item_a, item_b)
            THEN [st EXCEPT !.updates = Append(@, prepare_data(item_a, required_destination_cols)),
                            !.kinds = Append(@, "update")]
            ELSE st

\* lines 108-144: the loop over the source; the pass over the destination is
\* inside the loop body
RECURSIVE DiffLoop(_, _, _)
DiffLoop(st, aa, i) ==
    IF i > Len(aa) THEN st
    ELSE
        LET st1 == SourceStep(st, st.b, aa[i])
            st2 == IF TombstoneDue(st1.inserts, st1.b, aa)
                   THEN TombstonePass(st1, aa, 1) ELSE st1
        IN  DiffLoop(st2, aa, i + 1)

get_list_diff(aa, bb) ==
    DiffLoop([inserts |-> <<>>, updates |-> <<>>, kinds |-> <<>>, b |-> bb], aa, 1)

\* ------------------------------------------------- the diff scenario: inputs
Keys == 1..MaxKey
Times == 1..MaxTime

SrcItem(k, cust, mod, status) ==
    ("Id" :> PyInt(10 + k)) @@ ("Requirement Id" :> PyInt(k)) @@
    ("Customer Name" :> PyStr(cust)) @@ ("Current Status" :> PyStr(status)) @@
    ("Modified" :> PyIso(mod))

DstItem(k, flag, mod, status) ==
    ("Id" :> PyInt(20 + k)) @@ ("Requirement Id" :> PyInt(k)) @@ ("Effort" :> None) @@
    ("Customer Name" :> PyStr("KPMG India")) @@ ("Current Status" :> PyStr(status)) @@
    ("Update Flag" :> PyStr(flag)) @@ ("Modified" :> PyIso(mod))

\* the source items of key k: the customer's items in every status, another
\* customer's items, and items that carry a value for the Number column
SrcVariants(k) ==
    {SrcItem(k, "KPMG India", mod, status) : mod \in Times, status \in {"Open", "Done", ""}}
    \cup {SrcItem(k, "Acme", MaxTime, "Done")}
    \cup {SrcItem(k, "KPMG India", MaxTime, "Open") @@ ("Effort" :> PyStr(e)) : e \in {"7", "abc"}}

\* the destination items of key k; key MaxKey + 1 is an item the source
\* never holds
DstVariants(k) ==
    IF k <= MaxKey
    THEN {DstItem(k, "True", mod, "Open") : mod \in Times} \cup {DstItem(k, "False", 1, "Open")}
    ELSE {DstItem(k, "True", 1, "Open")}

\* a snapshot holds at most one item per key, in key order
RECURSIVE SnapshotsFrom(_, _)
SnapshotsFrom(k, side) ==
    IF k > (IF side = "source" THEN MaxKey ELSE MaxKey + 1) THEN {<<>>}
    ELSE LET rest == SnapshotsFrom(k + 1, side)
             here == IF side = "source" THEN SrcVariants(k) ELSE DstVariants(k)
         IN  rest \cup {<<x>> \o r : x \in here, r \in rest}

SourceSnapshots == SnapshotsFrom(1, "source")
DestSnapshots == SnapshotsFrom(1, "destination")

\* ------------------------------------------ applying a diff to the destination
DestColumns == DOMAIN required_destination_cols

\* the item create_simplified_list builds from a stored row: every column of
\* the list, None where the row holds nothing
ReadBack(row, id, now) ==
    [f \in DestColumns \cup {"Id", "Modified"} |->
        CASE f = "Id" -> PyInt(id)
          [] f = "Modified" -> PyIso(now)
          [] OTHER -> IF InternalName(f) \in DOMAIN row THEN row[InternalName(f)] ELSE None]

\* a MERGE of the update's fields into the stored item with the same key
MergeInto(item_b, upd, now) ==
    [f \in DOMAIN item_b |->
        CASE f = "Modified" -> PyIso(now)
          [] f = "Id" -> item_b[f]
          [] OTHER -> IF InternalName(f) \in DOMAIN upd THEN upd[InternalName(f)] ELSE item_b[f]]

EntryKey(e) == e[InternalName(primary_key)].v

RECURSIVE ApplyUpdates(_, _, _)
ApplyUpdates(bb, upds, now) ==
    IF upds = <<>> THEN bb
    ELSE ApplyUpdates(
            [j \in 1..Len(bb) |->
                IF KeyOf(bb[j]) = EntryKey(Head(upds))
                THEN MergeInto(bb[j], Head(upds), now) ELSE bb[j]],
            Tail(upds), now)

RECURSIVE ApplyInserts(_, _, _)
ApplyInserts(bb, ins, now) ==
    IF ins = <<>> THEN bb
    ELSE ApplyInserts(Append(bb, ReadBack(Head(ins), 30 + Len(bb), now)), Tail(ins), now)

\* the time the destination stamps on the items it writes: not before any
\* Modified the snapshots hold
WriteTime == MaxTime

\* ------------------------------------------------ the diff scenario: actions
GetListDiff ==
    /\ dpc \in {"start", "applied"}
    /\ LET r == get_list_diff(a, b)
       IN  /\ inserts' = r.inserts
           /\ updates' = r.updates
           /\ kinds' = r.kinds
           /\ b' = r.b
    /\ b_before' = b
    /\ dpc' = IF dpc = "start" THEN "diffed" ELSE "rediffed"
    /\ UNCHANGED <<a, prev>>

\* the inserts and updates of the diff are written to the destination list,
\* which stamps every written item with the time of the write, and the
\* destination is read again
ApplyDiff ==
    /\ dpc = "diffed"
    /\ b' = ApplyInserts(ApplyUpdates(b, updates, WriteTime), inserts, WriteTime)
    /\ prev' = [inserts |-> inserts, updates |-> updates, kinds |-> kinds]
    /\ dpc' = "applied"
    /\ UNCHANGED <<a, inserts, updates, kinds, b_before>>

DiffInit ==
    /\ a \in SourceSnapshots
    /\ b \in DestSnapshots
    /\ inserts = <<>>
    /\ updates = <<>>
    /\ kinds = <<>>
    /\ b_before = <<>>
    /\ prev = [inserts |-> <<>>, updates |-> <<>>, kinds |-> <<>>]
    /\ dpc = "start"

DiffIdle ==
    /\ a = <<>>
    /\ b = <<>>
    /\ inserts = <<>>
    /\ updates = <<>>
    /\ kinds = <<>>
    /\ b_before = <<>>
    /\ prev = [inserts |-> <<>>, updates |-> <<>>, kinds |-> <<>>]
    /\ dpc = "idle"

\* ------------------------------------------------------ *_items_in_batches
\* the final status of a response, redirects followed
Statuses == {200, 403, 500}

\* response.raise_for_status() raises for 4xx and 5xx
RaiseForStatus_Never(status) == FALSE
RaiseForStatus(status) == status >= 400 /\ status < 600

Min(x, y) == IF x < y THEN x ELSE y

\* items[i : i + batch_size], i counted from 0, with the stop one too far
BatchSlice_Overlap(its, start, size) == SubSeq(its, start + 1, Min(start + size + 1, Len(its)))
\* items[i : i + batch_size], i counted from 0
BatchSlice(its, start, size) == SubSeq(its, start + 1, Min(start + size, Len(its)))

\* a line of a batch body: its text, and the guid or item id it embeds
Line(text, arg) == [text |-> text, arg |-> arg]

\* the inner request of one delete, insert and update
DeletePart(item_id, changeset_guid) ==
    <<Line("--changeset", changeset_guid),
      Line("Content-Type: application/http", 0),
      Line("Content-Transfer-Encoding: binary", 0),
      Line("", 0),
      Line("DELETE items(id)", item_id),
      Line("IF-MATCH: *", 0),
      Line("Content-Type: application/json;odata=verbose", 0),
      Line("", 0)>>

InsertPart(item, changeset_guid) ==
    <<Line("--changeset", changeset_guid),
      Line("Content-Type: application/http", 0),
      Line("Content-Transfer-Encoding: binary", 0),
      Line("", 0),
      Line("POST items", 0),
      Line("body_dict", item),
      Line("Content-Type: application/json;odata=verbose", 0),
      Line("", 0)>>

UpdatePart_NoOverride(old_id, changeset_guid) ==
    <<Line("--changeset", changeset_guid),
      Line("Content-Type: application/http", 0),
      Line("Content-Transfer-Encoding: binary", 0),
      Line("", 0),
      Line("PATCH items(id)", old_id),
      Line("body_dict", old_id),
      Line("Content-Type: application/json;odata=verbose", 0),
      Line("IF-MATCH: *", 0),
      Line("", 0)>>
UpdatePart(old_id, changeset_guid) ==
    <<Line("--changeset", changeset_guid),
      Line("Content-Type: application/http", 0),
      Line("Content-Transfer-Encoding: binary", 0),
      Line("", 0),
      Line("PATCH items(id)", old_id),
      Line("body_dict", old_id),
      Line("Content-Type: application/json;odata=verbose", 0),
      Line("IF-MATCH: *", 0),
      Line("X-HTTP-Method: MERGE", 0),
      Line("", 0)>>

RECURSIVE Parts(_, _, _)
Parts(kind, batch, changeset_guid) ==
    IF batch = <<>> THEN <<>>
    ELSE (CASE kind = "delete" -> DeletePart(Head(batch), changeset_guid)
            [] kind = "insert" -> InsertPart(Head(batch), changeset_guid)
            [] kind = "update" -> UpdatePart(Head(batch), changeset_guid))
         \o Parts(kind, Tail(batch), changeset_guid)

\* __create_delete_batch, __create_insert_batch, __create_update_batch: the
\* two uuid4 values of a batch are its number and its number negated
create_batch(kind, batch, batch_guid) ==
    LET changeset_guid == 0 - batch_guid IN
    <<Line("--batch", batch_guid),
      Line("Content-Type: multipart/mixed; boundary=changeset", changeset_guid),
      Line("", 0)>>
    \o Parts(kind, batch, changeset_guid)
    \o <<Line("--changeset--", changeset_guid),
         Line("--batch--", batch_guid)>>

\* the body of the loop up to the digest: the slice, and for inserts and
\* updates the list-metadata read of __create_*_batch
CreateBatch ==
    /\ bpc = "loop"
    /\ batch_start < Len(items)
    /\ batch_items' = BatchSlice(items, batch_start, batch_size)
    /\ batch_body' = create_batch(op, BatchSlice(items, batch_start, batch_size), batch_no)
    /\ IF op = "delete"
       THEN /\ bpc' = "digest"
            /\ UNCHANGED <<metadata_reads, berror>>
       ELSE /\ metadata_reads' = metadata_reads + 1
            /\ \E status \in Statuses :
                  IF RaiseForStatus(status)
                  THEN bpc' = "raised" /\ berror' = "HTTPError"
                  ELSE bpc' = "digest" /\ UNCHANGED berror
    /\ UNCHANGED <<op, items, batch_size, batch_start, batch_no, request_digest, issued,
                   submitted, processed>>

\* a digest fetch that would return None instead of raising
GetRequestDigest_NoRaise ==
    /\ bpc = "digest"
    /\ \E status \in Statuses :
          IF status = 200
          THEN /\ issued' = issued + 1
               /\ request_digest' = issued + 1
          ELSE /\ request_digest' = 0
               /\ UNCHANGED issued
    /\ bpc' = "post"
    /\ UNCHANGED <<op, items, batch_size, batch_start, batch_no, batch_items,
                   batch_body, metadata_reads, submitted, processed, berror>>
\* __get_request_digest: a POST to contextinfo; anything but 200 raises
GetRequestDigest ==
    /\ bpc = "digest"
    /\ \E status \in Statuses :
          IF status = 200
          THEN /\ issued' = issued + 1
               /\ request_digest' = issued + 1
               /\ bpc' = "post"
               /\ UNCHANGED berror
          ELSE /\ bpc' = "raised"
               /\ berror' = "Exception"
               /\ UNCHANGED <<issued, request_digest>>
    /\ UNCHANGED <<op, items, batch_size, batch_start, batch_no, batch_items,
                   batch_body, metadata_reads, submitted, processed>>

\* the $batch POST sent without waiting for its response: the loop goes on
\* with the batch unanswered (status 0)
PostBatch_Unanswered ==
    /\ bpc = "post"
    /\ submitted' = Append(submitted,
          [ops |-> batch_items, body |-> batch_body, digest |-> request_digest,
           status |-> 0, no |-> batch_no])
    /\ processed' = Append(processed, batch_no)
    /\ batch_no' = batch_no + 1
    /\ batch_start' = batch_start + batch_size
    /\ bpc' = "loop"
    /\ UNCHANGED <<op, items, batch_size, batch_items, batch_body, request_digest,
                   issued, metadata_reads, berror>>
\* the $batch POST, raise_for_status, the success log and the step of the loop
PostBatch ==
    /\ bpc = "post"
    /\ \E status \in Statuses :
          /\ submitted' = Append(submitted,
                [ops |-> batch_items, body |-> batch_body, digest |-> request_digest,
                 status |-> status, no |-> batch_no])
          /\ IF RaiseForStatus(status)
             THEN /\ bpc' = "raised"
                  /\ berror' = "HTTPError"
                  /\ UNCHANGED <<processed, batch_no, batch_start>>
             ELSE /\ processed' = Append(processed, batch_no)
                  /\ batch_no' = batch_no + 1
                  /\ batch_start' = batch_start + batch_size
                  /\ bpc' = "loop"
                  /\ UNCHANGED berror
    /\ UNCHANGED <<op, items, batch_size, batch_items, batch_body, request_digest,
                   issued, metadata_reads>>

\* the range is exhausted: the function returns
BatchReturn ==
    /\ bpc = "loop"
    /\ batch_start >= Len(items)
    /\ bpc' = "done"
    /\ UNCHANGED <<op, items, batch_size, batch_start, batch_no, batch_items,
                   batch_body, request_digest, issued, metadata_reads, submitted,
                   processed, berror>>

BatchInit ==
    /\ op \in {"delete", "insert", "update"}
    /\ \E n \in 0..MaxItems : items = [k \in 1..n |-> 100 + k]
    /\ batch_size \in 1..MaxBatch
    /\ batch_start = 0
    /\ batch_no = 1
    /\ batch_items = <<>>
    /\ batch_body = <<>>
    /\ request_digest = 0
    /\ issued = 0
    /\ metadata_reads = 0
    /\ submitted = <<>>
    /\ processed = <<>>
    /\ berror = ""
    /\ bpc = "loop"

BatchIdle ==
    /\ op = "none"
    /\ items = <<>>
    /\ batch_size = 0
    /\ batch_start = 0
    /\ batch_no = 0
    /\ batch_items = <<>>
    /\ batch_body = <<>>
    /\ request_digest = 0
    /\ issued = 0
    /\ metadata_reads = 0
    /\ submitted = <<>>
    /\ processed = <<>>
    /\ berror = ""
    /\ bpc = "idle"

\* =========================================== the single-item write loops
\* a write loop is given at most MaxWrite items
MaxWrite == 3

VARIABLES
    wloop,          \* the loop that runs, by its qualified name
    write_list,     \* its list argument
    wbatch_size,    \* self.batch_size of a List object, 0 where there is none
    digest_value,   \* the digest the object holds since its construction
    contextinfo,    \* POSTs to _api/contextinfo made so far
    widx,           \* position of the for loop in write_list, from 1
    payload,        \* the payload dictionary of the running function
    todo,           \* attachment requests still to make for the current item
    temp_folder,    \* names of the files in temp_folder
    posted,         \* the state-changing requests sent, in order
    fetched,        \* the attachment downloads requested, in order
    pace,           \* the item writes and the calls of time.sleep, in order
    failures,       \* ids of the items the loop reported as failed
    werror,         \* the exception that left the loop, "" if none
    wpc             \* "call", "item", "files", "done", "raised" ("idle": not run)

writeVars ==
    <<wloop, write_list, wbatch_size, digest_value, contextinfo, widx, payload,
      todo, temp_folder, posted, fetched, pace, failures, werror, wpc>>

Loops ==
    {"List.insert_items", "List.update_list_items", "List.delete_list_items",
     "SharePointOperations.insert_list_items",
     "SharePointOperations.update_list_items"}

ListLoops ==
    {"List.insert_items", "List.update_list_items", "List.delete_list_items"}

\* BaseList.__init__ sets list_data_type; nothing sets list_item_data_type
list_item_data_type_set == FALSE

\* the item count the SharePointOperations loops test before the loop: the
\* literal 100 of the code, scaled to the lengths of the lists of the model
WaitEvery == MaxWrite - 1

\* the keys of an item that go into the payload
ItemFields(k, sparse) ==
    IF sparse THEN ("Title" :> 100 + k)
    ELSE ("Title" :> 100 + k) @@ ("Notes" :> 100 + k)

\* item k of the list argument, with the attachment names of the source item
\* and, for an update, the destination item of the same key
WriteItem(k, src, dst, sparse) ==
    [Id |-> 100 + k, Attachments |-> src # <<>>, atts |-> src,
     fields |-> ItemFields(k, sparse),
     second |-> [Id |-> 200 + k, Attachments |-> dst # <<>>, atts |-> dst]]

AttachmentLists(loop) ==
    IF loop = "SharePointOperations.update_list_items"
    THEN {<< <<>>, <<>> >>, << <<"f1">>, <<"f1">> >>, << <<"f1">>, <<>> >>,
          << <<>>, <<"f1">> >>, << <<"f1">>, <<"f2">> >>,
          << <<"f1", "f2">>, <<"f2", "f1">> >>, << <<"f1", "f1">>, <<"f1">> >>}
    ELSE {<<>>, <<"f1">>} \X {<<>>}

\* the lists of n items; at most one item, item p, comes without the field
\* Notes (the items of delete_list_items are not sent as a payload)
WriteLists(loop) ==
    UNION {{[k \in 1..n |-> WriteItem(k, f[k][1], f[k][2], k = p)] :
               f \in [1..n -> AttachmentLists(loop)],
               p \in IF loop = "List.delete_list_items" THEN {0} ELSE 0..n} :
           n \in 0..MaxWrite}

\* the final status of the response to an item write, a file download and an
\* attachment upload or delete
WriteStatuses == {201, 204, 403, 500}
DownloadStatuses == {200, 204, 404}
AttachmentStatuses == {200, 403}

\* collections.Counter(x) == collections.Counter(y)
Occurrences(s, x) == Cardinality({j \in DOMAIN s : s[j] = x})
CounterEq_Ordered(x, y) == x = y
CounterEq(x, y) ==
    \A f \in {x[j] : j \in DOMAIN x} \cup {y[j] : j \in DOMAIN y} :
        Occurrences(x, f) = Occurrences(y, f)

Requests(kind, id, names) ==
    [j \in DOMAIN names |-> [kind |-> kind, id |-> id, name |-> names[j]]]

\* payload = {"__metadata": {"type": list_item_data_type}}
Metadata == ("__metadata" :> 0)
NoPayload == [k \in {} |-> 0]

\* for key, value in item.items(): payload[key] = value, Id, Attachment List
\* and Modified left out
Filled(data, item) ==
    DictUpdate(data,
               item.fields @@ ("Attachments" :> IF item.Attachments THEN 1 ELSE 0))

\* the request of one item, sent with the digest read before the loop
ItemPost(item, status, data) ==
    [kind |-> "item", id |-> item.Id, name |-> "", digest |-> digest_value,
     status |-> status, payload |-> data]

\* the exception leaves the loop and the function
Raise(error) ==
    /\ werror' = error
    /\ wpc' = "raised"
    /\ UNCHANGED <<widx, todo, temp_folder, failures>>

\* the loop goes on to the next item
NextItem ==
    /\ widx' = widx + 1
    /\ wpc' = "item"
    /\ UNCHANGED <<werror, todo, temp_folder>>

AtItem(loop) ==
    /\ wloop = loop
    /\ wpc = "item"
    /\ widx <= Len(write_list)

\* the item POST, raise_for_status and time.sleep(2)
Paced(events, status) ==
    pace' = pace \o events \o
            (IF RaiseForStatus(status) THEN <<"write">> ELSE <<"write", "sleep 2">>)

\* if items_left % self.batch_size == 0: time.sleep(30)
CoolDown(items_left) ==
    IF items_left % wbatch_size = 0 THEN <<"sleep 30">> ELSE <<>>

\* the statements of a write function before its for loop
WriteCall ==
    /\ wpc = "call"
    /\ IF wloop = "List.update_list_items"
       THEN IF ~list_item_data_type_set
            THEN /\ Raise("AttributeError")
                 /\ UNCHANGED <<payload, pace>>
            ELSE /\ payload' = Metadata
                 /\ IF write_list = <<>>
                    THEN /\ pace' = <<"sleep 1">>
                         /\ wpc' = "item"
                         /\ UNCHANGED <<widx, todo, temp_folder, failures, werror>>
                    ELSE /\ pace' = <<"sleep 1">> \o CoolDown(Len(write_list))
                         /\ Raise("TypeError")
       ELSE IF wloop \in ListLoops
       THEN /\ wpc' = "item"
            /\ UNCHANGED <<payload, pace, widx, todo, temp_folder, failures, werror>>
       ELSE /\ payload' = Metadata
            /\ pace' = IF Len(write_list) % WaitEvery = 0
                       THEN <<"sleep 1", "sleep 30">> ELSE <<"sleep 1">>
            /\ wpc' = "item"
            /\ UNCHANGED <<widx, todo, temp_folder, failures, werror>>
    /\ UNCHANGED <<wloop, write_list, wbatch_size, digest_value, contextinfo,
                   posted, fetched>>

\* List.insert_items: one iteration of the loop
insert_items ==
    /\ AtItem("List.insert_items")
    /\ LET item == write_list[widx]
           data == Filled(Metadata, item)
       IN
       IF ~list_item_data_type_set
       THEN /\ Raise("AttributeError")
            /\ UNCHANGED <<posted, payload, pace>>
       ELSE \E status \in WriteStatuses :
            /\ payload' = data
            /\ posted' = Append(posted, ItemPost(item, status, data))
            /\ Paced(CoolDown(Len(write_list) - (widx - 1)), status)
            /\ IF RaiseForStatus(status)
               THEN Raise("HTTPError")
               ELSE /\ failures' = IF status # 201
                                   THEN Append(failures, item.Id)
                                   ELSE failures
                    /\ IF item.atts # <<>>
                       THEN /\ werror' = "TypeError"
                            /\ wpc' = "raised"
                            /\ UNCHANGED <<widx, todo, temp_folder>>
                       ELSE NextItem
    /\ UNCHANGED <<wloop, write_list, wbatch_size, digest_value, contextinfo, fetched>>

\* List.delete_list_items: one iteration of the loop
delete_list_items ==
    /\ AtItem("List.delete_list_items")
    /\ \E status \in WriteStatuses :
       /\ posted' = Append(posted, ItemPost(write_list[widx], status, NoPayload))
       /\ Paced(CoolDown(Len(write_list) - (widx - 1)), status)
       /\ IF RaiseForStatus(status)
          THEN Raise("HTTPError")
          ELSE NextItem /\ UNCHANGED failures
    /\ UNCHANGED <<wloop, write_list, wbatch_size, digest_value, contextinfo,
                   fetched, payload>>

\* the attachment requests queued for the current item
StartFiles(queue) ==
    IF queue = <<>>
    THEN NextItem
    ELSE /\ todo' = queue
         /\ wpc' = "files"
         /\ UNCHANGED <<widx, werror, temp_folder>>

\* SharePointOperations.insert_list_items: one iteration, up to the
\* attachment calls
insert_list_items ==
    /\ AtItem("SharePointOperations.insert_list_items")
    /\ LET item == write_list[widx]
           data == Filled(payload, item)
       IN
       \E status \in WriteStatuses :
       /\ payload' = data
       /\ posted' = Append(posted, ItemPost(item, status, data))
       /\ Paced(<<>>, status)
       /\ IF RaiseForStatus(status)
          THEN Raise("HTTPError")
          ELSE IF status = 201
          THEN /\ StartFiles(IF item.Attachments
                             THEN Requests("download", item.Id, item.atts)
                                  \o Requests("upload", item.Id, item.atts)
                             ELSE <<>>)
               /\ UNCHANGED failures
          ELSE /\ failures' = Append(failures, item.Id)
               /\ NextItem
    /\ UNCHANGED <<wloop, write_list, wbatch_size, digest_value, contextinfo, fetched>>

\* SharePointOperations.update_list_items: one iteration, up to the
\* attachment calls
update_list_items ==
    /\ AtItem("SharePointOperations.update_list_items")
    /\ LET item == write_list[widx]
           second_list_item == item.second
           data == Filled(payload, item)
       IN
       \E status \in WriteStatuses :
       /\ payload' = data
       /\ posted' = Append(posted, ItemPost(second_list_item, status, data))
       /\ Paced(<<>>, status)
       /\ IF RaiseForStatus(status)
          THEN Raise("HTTPError")
          ELSE IF status = 204
          THEN /\ StartFiles(
                    IF ~CounterEq(item.atts, second_list_item.atts)
                    THEN Requests("download", item.Id, item.atts)
                         \o (IF second_list_item.Attachments
                             THEN Requests("delete", second_list_item.Id,
                                           second_list_item.atts)
                             ELSE <<>>)
                         \o Requests("upload", second_list_item.Id,
                                     second_list_item.atts)
                    ELSE <<>>)
               /\ UNCHANGED failures
          ELSE /\ failures' = Append(failures, second_list_item.Id)
               /\ NextItem
    /\ UNCHANGED <<wloop, write_list, wbatch_size, digest_value, contextinfo, fetched>>

\* after the last attachment request Utils.clear_folder empties temp_folder
\* and the loop goes on
FilesDone(rest, folder) ==
    /\ todo' = rest
    /\ werror' = werror
    /\ IF rest = <<>>
       THEN /\ temp_folder' = {}
            /\ widx' = widx + 1
            /\ wpc' = "item"
       ELSE /\ temp_folder' = folder
            /\ UNCHANGED <<widx, wpc>>

\* download_attachments, delete_attachments, upload_attachments: the request
\* of one file
AttachmentStep ==
    /\ wpc = "files"
    /\ todo # <<>>
    /\ LET req == Head(todo)
           sent(status) == [kind |-> req.kind, id |-> req.id,
                            name |-> req.name, digest |-> digest_value,
                            status |-> status, payload |-> NoPayload]
       IN
       CASE req.kind = "download" ->
              \E status \in DownloadStatuses :
              /\ fetched' = Append(fetched, [id |-> req.id, name |-> req.name,
                                             status |-> status])
              /\ UNCHANGED posted
              /\ IF RaiseForStatus(status)
                 THEN Raise("HTTPError")
                 ELSE FilesDone(Tail(todo),
                                IF status = 200
                                THEN temp_folder \cup {req.name}
                                ELSE temp_folder)
         [] req.kind = "delete" ->
              \E status \in AttachmentStatuses :
              /\ posted' = Append(posted, sent(status))
              /\ UNCHANGED fetched
              /\ IF RaiseForStatus(status)
                 THEN Raise("HTTPError")
                 ELSE FilesDone(Tail(todo), temp_folder)
         [] req.kind = "upload" ->
              IF req.name \notin temp_folder
              THEN Raise("FileNotFoundError") /\ UNCHANGED <<posted, fetched>>
              ELSE \E status \in AttachmentStatuses :
                   /\ posted' = Append(posted, sent(status))
                   /\ UNCHANGED fetched
                   /\ IF RaiseForStatus(status)
                      THEN Raise("HTTPError")
                      ELSE FilesDone(Tail(todo), temp_folder)
    /\ UNCHANGED <<wloop, write_list, wbatch_size, digest_value, contextinfo,
                   failures, payload, pace>>

\* the for loop is exhausted and the function returns
WriteReturn ==
    /\ wloop \in Loops
    /\ wpc = "item"
    /\ widx > Len(write_list)
    /\ wpc' = "done"
    /\ UNCHANGED <<wloop, write_list, wbatch_size, digest_value, contextinfo,
                   widx, payload, todo, temp_folder, posted, fetched, pace,
                   failures, werror>>

\* the object is constructed, its digest fetched once; a loop is called
WriteInit ==
    /\ wloop \in Loops
    /\ write_list \in WriteLists(wloop)
    /\ wbatch_size \in IF wloop \in ListLoops THEN 1..(MaxWrite - 1) ELSE {0}
    /\ digest_value = 1
    /\ contextinfo = 1
    /\ widx = 1
    /\ payload = NoPayload
    /\ todo = <<>>
    /\ temp_folder = {}
    /\ posted = <<>>
    /\ fetched = <<>>
    /\ pace = <<>>
    /\ failures = <<>>
    /\ werror = ""
    /\ wpc = "call"

WriteIdle ==
    /\ wloop = "none"
    /\ write_list = <<>>
    /\ wbatch_size = 0
    /\ digest_value = 0
    /\ contextinfo = 0
    /\ widx = 0
    /\ payload = NoPayload
    /\ todo = <<>>
    /\ temp_folder = {}
    /\ posted = <<>>
    /\ fetched = <<>>
    /\ pace = <<>>
    /\ failures = <<>>
    /\ werror = ""
    /\ wpc = "idle"

\* ======================================================= get_list_items
\* the server holds at most MaxPages pages of at most MaxPageItems items, and
\* a run of get_list_items makes at most MaxReads requests
MaxPages == 3
MaxPageItems == 2
MaxReads == 5

VARIABLES
    pages,          \* the server's pages, in continuation order
    endpoint,       \* the page the next request goes to, 0 for None
    all_items,      \* the items collected so far
    page_reads,     \* the requests made, in order, with their status
    rerror,         \* the exception that left the function, "" if none
    rpc             \* "loop", "returned", "raised", "exited" ("idle": not run)

readVars == <<pages, endpoint, all_items, page_reads, rerror, rpc>>

\* the status of a page response; a response other than 200 below 400
\* carries a JSON body without results
ReadStatuses == {200, 202, 404, 500}

\* page p of the chain holds the items first..first + size - 1
PageOf(first, size) == [j \in 1..size |-> first + j - 1]

RECURSIVE PageChains(_, _)
PageChains(n, first) ==
    IF n = 0 THEN {<<>>}
    ELSE UNION {{<<PageOf(first, size)>> \o rest :
                    rest \in PageChains(n - 1, first + size)} :
                size \in 0..MaxPageItems}

\* data.get("d", {}).get("__next", None) of page p
NextLink_Skip(chain, p) == IF p + 1 < Len(chain) THEN p + 2 ELSE 0
NextLink(chain, p) == IF p < Len(chain) THEN p + 1 ELSE 0

\* what the loop body does with a response: raise_for_status comes first,
\* then the tests of the status
ReadOutcome_Lenient(status) ==
    IF status = 200 THEN "page" ELSE "log"
ReadOutcome(status) ==
    IF RaiseForStatus(status) THEN "raise"
    ELSE IF status = 200 THEN "page"
    ELSE IF status = 404 THEN "exit"
    ELSE "log"

\* one iteration of `while endpoint`
ReadPage ==
    /\ rpc = "loop"
    /\ endpoint # 0
    /\ Len(page_reads) < MaxReads
    /\ \E status \in ReadStatuses :
       /\ page_reads' = Append(page_reads, [endpoint |-> endpoint, status |-> status])
       /\ LET outcome == ReadOutcome(status) IN
          CASE outcome = "raise" ->
                 /\ rpc' = "raised"
                 /\ rerror' = "HTTPError"
                 /\ UNCHANGED <<all_items, endpoint>>
            [] outcome = "page" ->
                 /\ all_items' = all_items \o pages[endpoint]
                 /\ endpoint' = NextLink(pages, endpoint)
                 /\ UNCHANGED <<rpc, rerror>>
            [] outcome = "exit" ->
                 /\ rpc' = "exited"
                 /\ rerror' = "SystemExit"
                 /\ UNCHANGED <<all_items, endpoint>>
            [] outcome = "log" ->
                 UNCHANGED <<all_items, endpoint, rpc, rerror>>
    /\ UNCHANGED pages

\* endpoint is None: the function returns all_items
ReadReturn ==
    /\ rpc = "loop"
    /\ endpoint = 0
    /\ rpc' = "returned"
    /\ UNCHANGED <<pages, endpoint, all_items, page_reads, rerror>>

ReadInit ==
    /\ pages \in UNION {PageChains(n, 1) : n \in 1..MaxPages}
    /\ endpoint = 1
    /\ all_items = <<>>
    /\ page_reads = <<>>
    /\ rerror = ""
    /\ rpc = "loop"

ReadIdle ==
    /\ pages = <<>>
    /\ endpoint = 0
    /\ all_items = <<>>
    /\ page_reads = <<>>
    /\ rerror = ""
    /\ rpc = "idle"

\* ================================================= schema introspection
\* the fields query returns at most MaxFields fields
MaxFields == 2

VARIABLES
    columns_info,       \* the fields the server returns for the list
    schema_fn,          \* the schema function called last, "" if none
    schema_response,    \* the response it got
    schema_result,      \* what it returned, NoResult if it raised
    schema_error        \* the exception it raised, "" if none

schemaVars ==
    <<columns_info, schema_fn, schema_response, schema_result, schema_error>>

\* fields of kind Text (2), Lookup (7), User (20) and Computed (12)
Field(title, name, type, kind) ==
    [Title |-> title, EntityPropertyName |-> name, InternalName |-> name,
     TypeAsString |-> type, FieldTypeKind |-> kind]

FieldPool ==
    {Field("Title", "Title", "Text", 2),
     Field("Project", "Project", "Lookup", 7),
     Field("Owner", "Owner", "User", 20),
     Field("Content Type", "ContentType", "Computed", 12)}

FieldLists ==
    UNION {{f \in [1..n -> FieldPool] :
               \A j, k \in 1..n : j # k => f[j] # f[k]} : n \in 0..MaxFields}

\* a response to a schema read: its status and whether its body is JSON; a
\* JSON body of a response other than 200 is an error object without "d"
SchemaResponses ==
    {[status |-> 200, json |-> TRUE],
     [status |-> 404, json |-> TRUE],
     [status |-> 500, json |-> FALSE]}

NoResponse == [status |-> 0, json |-> FALSE]
NoResult == [kind |-> "none", cols |-> <<>>, value |-> ""]
EmptyEntry == [name |-> "", dtype |-> ""]

\* data.get("d", {}).get("results", [])
ResultsOf(response) == IF response.status = 200 THEN columns_info ELSE <<>>

\* the loop over columns_info: the Id suffix for the kinds in id_kinds, the
\* ContentType column left out, the keys of extras holding {}
SuffixedName(column, id_kinds) ==
    IF column.FieldTypeKind \in id_kinds
    THEN column.EntityPropertyName \o "Id"
    ELSE column.EntityPropertyName

RequiredCols(columns, id_kinds, extras) ==
    LET kept == {j \in DOMAIN columns :
                    SuffixedName(columns[j], id_kinds) # "ContentType"}
        titles == {columns[j].Title : j \in kept}
        last(t) == CHOOSE j \in kept :
                      /\ columns[j].Title = t
                      /\ \A k \in kept : columns[k].Title = t => k <= j
    IN  [kind |-> "cols",
         cols |-> [t \in titles \cup extras |->
                     IF t \in titles
                     THEN [name |-> SuffixedName(columns[last(t)], id_kinds),
                           dtype |-> columns[last(t)].TypeAsString]
                     ELSE EmptyEntry],
         value |-> ""]

\* {field["Title"]: field["InternalName"] for field in fields}
FieldMappings(columns) ==
    [kind |-> "cols",
     cols |-> [t \in {columns[j].Title : j \in DOMAIN columns} |->
                 [name |-> (CHOOSE n \in {columns[j].InternalName :
                                 j \in {k \in DOMAIN columns : columns[k].Title = t}} : TRUE),
                  dtype |-> ""]],
     value |-> ""]

\* data.get("d", {}).get(property_name, None)
ListProperty(response) ==
    [kind |-> "value", cols |-> <<>>,
     value |-> IF response.status = 200 THEN "SP.Data.ListItem" ELSE "None"]

\* what each schema function builds from the body of its response
SchemaValue(fn, response) ==
    CASE fn = "ListOperations.get_required_columns" ->
            RequiredCols(ResultsOf(response), {20, 7}, {"Id"})
      [] fn = "ListOperations.get_column_datatypes" ->
            RequiredCols(ResultsOf(response), {20}, {})
      [] fn = "BaseList.get_required_columns" ->
            RequiredCols(ResultsOf(response), {20, 7}, {"Id"})
      [] fn = "BaseList.__get_column_datatypes" ->
            RequiredCols(ResultsOf(response), {20}, {})
      [] fn = "SharePointOperations.get_required_columns" ->
            RequiredCols(ResultsOf(response), {20},
                         {"Id", "Modified", "Attachment List"})
      [] fn \in {"List.__get_column_name_mappings",
                 "SharePointOperations.get_field_mappings"} ->
            FieldMappings(ResultsOf(response))
      [] OTHER -> ListProperty(response)

\* every schema function but get_field_mappings calls raise_for_status
CallsRaiseForStatus(fn) == fn # "SharePointOperations.get_field_mappings"

\* a schema function: the GET, raise_for_status where the function calls it,
\* response.json(), and the value built from the body
SchemaRead(fn) ==
    \E response \in SchemaResponses :
       /\ schema_fn' = fn
       /\ schema_response' = response
       /\ IF CallsRaiseForStatus(fn) /\ RaiseForStatus(response.status)
          THEN /\ schema_error' = "HTTPError"
               /\ schema_result' = NoResult
          ELSE IF ~response.json
          THEN /\ schema_error' = "JSONDecodeError"
               /\ schema_result' = NoResult
          ELSE /\ schema_error' = ""
               /\ schema_result' = SchemaValue(fn, response)
       /\ UNCHANGED columns_info

ListOperations_get_required_columns ==
    SchemaRead("ListOperations.get_required_columns")

ListOperations_get_column_datatypes ==
    SchemaRead("ListOperations.get_column_datatypes")

BaseList_get_required_columns ==
    SchemaRead("BaseList.get_required_columns")

BaseList_get_column_datatypes ==
    SchemaRead("BaseList.__get_column_datatypes")

SharePointOperations_get_required_columns ==
    SchemaRead("SharePointOperations.get_required_columns")

ListOperations_get_list_property ==
    SchemaRead("ListOperations.get_list_property")

BaseList_get_list_property ==
    SchemaRead("BaseList.get_list_property")

SharePointOperations_get_list_property ==
    SchemaRead("SharePointOperations.get_list_property")

List_get_column_name_mappings ==
    SchemaRead("List.__get_column_name_mappings")

SharePointOperations_get_field_mappings ==
    SchemaRead("SharePointOperations.get_field_mappings")

SchemaInit ==
    /\ columns_info \in FieldLists
    /\ schema_fn = ""
    /\ schema_response = NoResponse
    /\ schema_result = NoResult
    /\ schema_error = ""

SchemaIdle ==
    /\ columns_info = <<>>
    /\ schema_fn = "idle"
    /\ schema_response = NoResponse
    /\ schema_result = NoResult
    /\ schema_error = ""

\* ========================================================== TaskManager
\* at most MaxTasks tasks are submitted to one TaskManager
MaxTasks == 3

VARIABLES
    futures,        \* self.futures: per task its state and, once run, outcome
    waiting,        \* the futures as_completed has not yet yielded
    results,        \* the local list of get_results
    terror,         \* the exception that left get_results, "" if none
    tpc             \* "open", "collecting", "returned", "raised" ("idle": not run)

taskVars == <<futures, waiting, results, terror, tpc>>

\* what a task function can end with: a return value or a raised exception
\* of a class deriving from Exception
Outcomes(task) ==
    {[kind |-> "value", task |-> task], [kind |-> "Exception", task |-> task]}
NoOutcome == [kind |-> "none", task |-> 0]

\* except Exception as e
Caught_Never(outcome) == FALSE
Caught(outcome) == outcome.kind = "Exception"

\* TaskManager.add_task: executor.submit and self.futures.append
add_task ==
    /\ tpc = "open"
    /\ Len(futures) < MaxTasks
    /\ futures' = Append(futures, [state |-> "PENDING", outcome |-> NoOutcome])
    /\ UNCHANGED <<waiting, results, terror, tpc>>

\* a worker thread of the executor runs a submitted task to its end
RunTask ==
    /\ tpc \in {"open", "collecting"}
    /\ \E f \in DOMAIN futures :
       /\ futures[f].state = "PENDING"
       /\ \E outcome \in Outcomes(f) :
              futures' = [futures EXCEPT ![f] = [state |-> "FINISHED",
                                                 outcome |-> outcome]]
    /\ UNCHANGED <<waiting, results, terror, tpc>>

\* TaskManager.get_results up to the for loop: as_completed takes the set of
\* the futures
get_results ==
    /\ tpc = "open"
    /\ waiting' = DOMAIN futures
    /\ results' = <<>>
    /\ tpc' = "collecting"
    /\ UNCHANGED <<futures, terror>>

\* one iteration of the for loop: as_completed yields a finished future, in
\* no particular order, and blocks while none of the waiting ones is finished
Collect ==
    /\ tpc = "collecting"
    /\ \E f \in waiting :
       /\ futures[f].state = "FINISHED"
       /\ waiting' = waiting \ {f}
       /\ LET outcome == futures[f].outcome IN
          IF outcome.kind = "value" \/ Caught(outcome)
          THEN /\ results' = Append(results, outcome)
               /\ UNCHANGED <<terror, tpc>>
          ELSE /\ terror' = outcome.kind
               /\ tpc' = "raised"
               /\ UNCHANGED results
    /\ UNCHANGED futures

\* as_completed is exhausted: return results
TasksReturn ==
    /\ tpc = "collecting"
    /\ waiting = {}
    /\ tpc' = "returned"
    /\ UNCHANGED <<futures, waiting, results, terror>>

\* TaskManager.__init__
TasksInit ==
    /\ futures = <<>>
    /\ waiting = {}
    /\ results = <<>>
    /\ terror = ""
    /\ tpc = "open"

TasksIdle ==
    /\ futures = <<>>
    /\ waiting = {}
    /\ results = <<>>
    /\ terror = ""
    /\ tpc = "idle"

\* ======================================================== prepare_data
VARIABLES
    prep_item,      \* the item dictionary handed to prepare_data
    prep_fn,        \* the function that was applied
    prep_result,    \* the dictionary it returned
    prep_error,     \* the exception that left it, "" if none
    ppc             \* "start", "done" ("idle": not run)

prepVars == <<prep_item, prep_fn, prep_result, prep_error, ppc>>

PyFloat(n) == [t |-> "float", v |-> n]

\* the values a field of the item can hold
EffortValues == {None, PyInt(0), PyInt(5), PyStr("7"), PyStr("abc")}
TextValues == {None, PyStr(""), PyStr("KPMG India")}
ChoiceValues == {None, PyStr(""), PyStr("Open")}

PrepItems ==
    {("Requirement Id" :> PyInt(1)) @@ ("Effort" :> e) @@
     ("Customer Name" :> c) @@ ("Current Status" :> st) :
        e \in EffortValues, c \in TextValues, st \in ChoiceValues}

\* nothing assigns self.list_field_dict
list_field_dict_set == FALSE

\* List.prepare_data, lines 365-381: the conversion of one value; raised
\* names the exception that is not caught
ListCoerce(data_type, value) ==
    CASE data_type = "Text" ->
            [raised |-> "",
             v |-> CASE value.t = "str" -> value
                     [] value.t = "none" -> PyStr("None")
                     [] OTHER -> PyStr(StrOf(value.v))]
      [] data_type = "Number" ->
            CASE value.t = "none" -> [raised |-> "TypeError", v |-> None]
              [] value.t = "str" ->
                    [raised |-> "",
                     v |-> IF IsNumeric(value.v) THEN PyFloat(IntOf(value.v))
                           ELSE None]
              [] OTHER -> [raised |-> "", v |-> PyFloat(value.v)]
      [] OTHER -> [raised |-> "", v |-> value]

\* List.prepare_data, lines 361-383: the loop over the fields of one item
RECURSIVE ListPrepLoop(_, _, _)
ListPrepLoop(item, ks, processed_item_dict) ==
    IF ks = <<>> THEN [raised |-> "", item |-> processed_item_dict]
    ELSE IF ~list_field_dict_set
    THEN [raised |-> "AttributeError", item |-> processed_item_dict]
    ELSE IF Head(ks) \notin DOMAIN required_destination_cols
    THEN [raised |-> "KeyError", item |-> processed_item_dict]
    ELSE
        LET key == Head(ks)
            c == ListCoerce(required_destination_cols[key].dtype, item[key])
        IN  IF c.raised # ""
            THEN [raised |-> c.raised, item |-> processed_item_dict]
            ELSE ListPrepLoop(item, Tail(ks),
                              IF c.v.t # "none"
                              THEN Put(processed_item_dict,
                                       required_destination_cols[key].name, c.v)
                              ELSE processed_item_dict)

\* Utils.prepare_data(item_dict, required_col_dict)
Utils_prepare_data ==
    /\ ppc = "start"
    /\ prep_fn' = "Utils.prepare_data"
    /\ prep_result' = prepare_data(prep_item, required_destination_cols)
    /\ prep_error' = ""
    /\ ppc' = "done"
    /\ UNCHANGED prep_item

\* List.prepare_data([item])
List_prepare_data ==
    /\ ppc = "start"
    /\ prep_fn' = "List.prepare_data"
    /\ LET r == ListPrepLoop(prep_item, ItemKeys(prep_item), EmptyDict) IN
       /\ prep_result' = IF r.raised = "" THEN r.item ELSE EmptyDict
       /\ prep_error' = r.raised
    /\ ppc' = "done"
    /\ UNCHANGED prep_item

PrepInit ==
    /\ prep_item \in PrepItems
    /\ prep_fn = ""
    /\ prep_result = EmptyDict
    /\ prep_error = ""
    /\ ppc = "start"

PrepIdle ==
    /\ prep_item = EmptyDict
    /\ prep_fn = ""
    /\ prep_result = EmptyDict
    /\ prep_error = ""
    /\ ppc = "idle"

\* ---------------------------------------------------------- specifications
vars == <<diffVars, batchVars, writeVars, readVars, schemaVars, taskVars, prepVars>>

InitDiff == DiffInit /\ BatchIdle /\ WriteIdle /\ ReadIdle /\ SchemaIdle /\ TasksIdle /\ PrepIdle
DiffNext ==
    (GetListDiff \/ ApplyDiff) /\ UNCHANGED <<batchVars, writeVars, readVars, schemaVars, taskVars, prepVars>>
SpecDiff == InitDiff /\ [][DiffNext]_vars

InitBatch == BatchInit /\ DiffIdle /\ WriteIdle /\ ReadIdle /\ SchemaIdle /\ TasksIdle /\ PrepIdle
BatchNext ==
    /\ CreateBatch \/ GetRequestDigest \/ PostBatch \/ BatchReturn
    /\ UNCHANGED <<diffVars, writeVars, readVars, schemaVars, taskVars, prepVars>>
SpecBatch == InitBatch /\ [][BatchNext]_vars

InitWrite == WriteInit /\ DiffIdle /\ BatchIdle /\ ReadIdle /\ SchemaIdle /\ TasksIdle /\ PrepIdle
WriteNext ==
    /\ \/ WriteCall
       \/ insert_items
       \/ delete_list_items
       \/ insert_list_items
       \/ update_list_items
       \/ AttachmentStep
       \/ WriteReturn
    /\ UNCHANGED <<diffVars, batchVars, readVars, schemaVars, taskVars, prepVars>>
SpecWrite == InitWrite /\ [][WriteNext]_vars

InitRead == ReadInit /\ DiffIdle /\ BatchIdle /\ WriteIdle /\ SchemaIdle /\ TasksIdle /\ PrepIdle
ReadNext ==
    /\ ReadPage \/ ReadReturn
    /\ UNCHANGED <<diffVars, batchVars, writeVars, schemaVars, taskVars, prepVars>>
SpecRead == InitRead /\ [][ReadNext]_vars

InitSchema == SchemaInit /\ DiffIdle /\ BatchIdle /\ WriteIdle /\ ReadIdle /\ TasksIdle /\ PrepIdle
SchemaNext ==
    /\ \/ ListOperations_get_required_columns
       \/ ListOperations_get_column_datatypes
       \/ BaseList_get_required_columns
       \/ BaseList_get_column_datatypes
       \/ SharePointOperations_get_required_columns
       \/ ListOperations_get_list_property
       \/ BaseList_get_list_property
       \/ SharePointOperations_get_list_property
       \/ List_get_column_name_mappings
       \/ SharePointOperations_get_field_mappings
    /\ UNCHANGED <<diffVars, batchVars, writeVars, readVars, taskVars, prepVars>>
SpecSchema == InitSchema /\ [][SchemaNext]_vars

InitTasks ==
    /\ TasksInit /\ DiffIdle /\ BatchIdle /\ WriteIdle /\ ReadIdle
    /\ SchemaIdle /\ PrepIdle
TasksNext ==
    /\ add_task \/ RunTask \/ get_results \/ Collect \/ TasksReturn
    /\ UNCHANGED <<diffVars, batchVars, writeVars, readVars, schemaVars, prepVars>>
SpecTasks == InitTasks /\ [][TasksNext]_vars

InitPrep ==
    /\ PrepInit /\ DiffIdle /\ BatchIdle /\ WriteIdle /\ ReadIdle
    /\ SchemaIdle /\ TasksIdle
PrepNext ==
    /\ Utils_prepare_data \/ List_prepare_data
    /\ UNCHANGED <<diffVars, batchVars, writeVars, readVars, schemaVars, taskVars>>
SpecPrep == InitPrep /\ [][PrepNext]_vars

\* ======================================================== claims on the diff
DiffDone == dpc \in {"diffed", "rediffed"}

KeyName == "Requirement_x0020_Id"
FlagName == "Update_x0020_Flag"
StatusName == "Current_x0020_Status"

\* the keys of the three sets the diff produced
InsertKeys == {inserts[n][KeyName].v : n \in 1..Len(inserts)}
UpdateKeys == {updates[n][KeyName].v : n \in {m \in 1..Len(updates) : kinds[m] = "update"}}
CloseKeys == {updates[n][KeyName].v : n \in {m \in 1..Len(updates) : kinds[m] = "close"}}

SourceKeys == {a[i]["Requirement Id"].v : i \in 1..Len(a)}
DestKeysBefore == {b_before[j]["Requirement Id"].v : j \in 1..Len(b_before)}
DestItemBefore(k) == b_before[CHOOSE j \in 1..Len(b_before) : b_before[j]["Requirement Id"].v = k]
IsCustomer(item) == item["Customer Name"].v = "KPMG India"

\* C1: after get_list_diff, no primary key is in more than one of the insert
\* set, the matched-key update set and the close set.
C1_Disjoint ==
    DiffDone =>
        /\ InsertKeys \cap UpdateKeys = {}
        /\ InsertKeys \cap CloseKeys = {}
        /\ UpdateKeys \cap CloseKeys = {}

C1_Witness ==
    /\ dpc = "diffed"
    /\ InsertKeys # {}
    /\ UpdateKeys # {}
    /\ CloseKeys # {}

\* C2 as stated: the diff that follows the application of a diff returns an
\* empty insert list and an empty update list.
C2_Original == dpc = "rediffed" => inserts = <<>> /\ updates = <<>>

\* C2: the diff that follows the application of a diff, the source unchanged,
\* returns no insert and no update of a key the source holds; the updates it
\* returns are the close updates of the destination items missing from the
\* source.
C2_Idempotent ==
    dpc = "rediffed" =>
        /\ inserts = <<>>
        /\ \A n \in 1..Len(updates) : kinds[n] = "close" /\ updates[n][KeyName].v \notin SourceKeys

C2_Witness ==
    /\ dpc = "rediffed"
    /\ prev.inserts # <<>>
    /\ \E n \in 1..Len(prev.kinds) : prev.kinds[n] = "update"
    /\ updates # <<>>

\* what the claim C3 compares: the fields of the source item other than the
\* key, Modified and the server's Id
ComparedFields(item_a) == (DOMAIN item_a) \ {"Requirement Id", "Modified", "Id"}
FieldDiffers(item_a, item_b) ==
    \E f \in ComparedFields(item_a) :
        f \notin DOMAIN item_b \/ item_a[f].t # item_b[f].t \/ item_a[f].v # item_b[f].v
UpdateCondition(item_a, item_b) ==
    /\ item_b["Update Flag"].v = "True"
    /\ item_a["Modified"].v > item_b["Modified"].v
    /\ FieldDiffers(item_a, item_b)

\* C3 as stated: for a source item whose key the destination holds, an update
\* is emitted exactly when the flag is true, the source is strictly newer and
\* a field differs.
C3_Original ==
    DiffDone =>
        \A i \in 1..Len(a) :
            a[i]["Requirement Id"].v \in DestKeysBefore =>
                (a[i]["Requirement Id"].v \in UpdateKeys
                    <=> UpdateCondition(a[i], DestItemBefore(a[i]["Requirement Id"].v)))

\* C3: for a source item whose key the destination holds, an update is emitted
\* exactly when the source item passes the customer filter, the destination
\* flag is true, the source Modified is strictly greater and a field other
\* than the key, Id and Modified differs.
C3_UpdateIff ==
    DiffDone =>
        \A i \in 1..Len(a) :
            a[i]["Requirement Id"].v \in DestKeysBefore =>
                (a[i]["Requirement Id"].v \in UpdateKeys
                    <=> /\ IsCustomer(a[i])
                        /\ UpdateCondition(a[i], DestItemBefore(a[i]["Requirement Id"].v)))

\* a matched pair with equal timestamps and different fields, and a matched
\* pair that was updated
C3_Witness ==
    /\ dpc = "diffed"
    /\ UpdateKeys # {}
    /\ \E i \in 1..Len(a) :
          /\ a[i]["Requirement Id"].v \in DestKeysBefore \ UpdateKeys
          /\ IsCustomer(a[i])
          /\ LET item_b == DestItemBefore(a[i]["Requirement Id"].v)
             IN  /\ item_b["Update Flag"].v = "True"
                 /\ a[i]["Modified"].v = item_b["Modified"].v
                 /\ FieldDiffers(a[i], item_b)

\* the source items the diff has to insert: the customer's items whose key
\* the destination does not hold
ToInsert == {i \in 1..Len(a) : IsCustomer(a[i]) /\ a[i]["Requirement Id"].v \notin DestKeysBefore}
InsertsOf(k) == {n \in 1..Len(inserts) : KeyName \in DOMAIN inserts[n] /\ inserts[n][KeyName].v = k}
TheInsertOf(k) == inserts[CHOOSE n \in InsertsOf(k) : TRUE]

WireName(f) == IF f = "Id" THEN "Id" ELSE required_destination_cols[f].name
IsEmpty(x) == x.t = "none" \/ (x.t = "str" /\ x.v = "") \/ (x.t = "int" /\ x.v = 0)
DecimalStrings == {"0", "1", "2", "3", "4", "5", "6", "7", "8", "9"}
\* a value the declared type of the column cannot take
Unconvertible(item, f) ==
    /\ f \notin {"Id", "Modified"}
    /\ ~IsEmpty(item[f])
    /\ required_destination_cols[f].dtype = "Number"
    /\ item[f].t = "str"
    /\ item[f].v \notin DecimalStrings
Position(f) == CHOOSE n \in 1..Len(FieldOrder) : FieldOrder[n] = f
\* the source fields an insert carries: those with a value, other than
\* Modified, that come before the first unconvertible value
CarriedFields(item) ==
    {f \in (DOMAIN item) \ {"Modified"} :
        /\ f = "Id" \/ ~IsEmpty(item[f])
        /\ \A g \in DOMAIN item : Unconvertible(item, g) => Position(f) < Position(g)}
SameValue(x, y) ==
    \/ x.t = y.t /\ x.v = y.v
    \/ x.t = "str" /\ y.t = "int" /\ x.v = ToString(y.v)

ClosesOf(k) ==
    {n \in 1..Len(updates) :
        /\ kinds[n] = "close"
        /\ updates[n][KeyName].v = k
        /\ updates[n][StatusName] = PyStr("Closed")}
MissingKeys == DestKeysBefore \ SourceKeys

\* C5: every destination item whose key the source does not hold is emitted
\* as an update that sets its status to the closed value.
C5_TombstoneCoverage == DiffDone => \A k \in MissingKeys : ClosesOf(k) # {}

\* C6: no destination item whose key the source does not hold is emitted more
\* than once.
C6_ClosedOnce == DiffDone => \A k \in MissingKeys : Cardinality(ClosesOf(k)) <= 1

\* ================================================== claims on the batch runs
RECURSIVE Concat(_)
Concat(seqs) == IF seqs = <<>> THEN <<>> ELSE Head(seqs) \o Concat(Tail(seqs))

BatchOps == [j \in 1..Len(submitted) |-> submitted[j].ops]
CeilDiv(n, k) == (n + k - 1) \div k
IsSuccess(status) == status \in 200..299

\* C7: no submitted batch holds more than batch_size operations, and a run
\* that returns has submitted ceil(n / batch_size) batches, all but the last
\* of exactly batch_size operations, whose concatenation is the input.
C7_BatchSplit ==
    /\ \A j \in 1..Len(submitted) :
          Len(submitted[j].ops) >= 1 /\ Len(submitted[j].ops) <= batch_size
    /\ bpc = "done" =>
          /\ Len(submitted) = CeilDiv(Len(items), batch_size)
          /\ \A j \in 1..(Len(submitted) - 1) : Len(submitted[j].ops) = batch_size
          /\ Concat(BatchOps) = items

\* five operations at batch size two went out as batches of 2, 2 and 1
C7_Witness ==
    /\ bpc = "done"
    /\ Len(items) = 5
    /\ batch_size = 2
    /\ [j \in 1..Len(submitted) |-> Len(submitted[j].ops)] = <<2, 2, 1>>

\* C10: a $batch POST answered with a non-success status ends the run with an
\* exception: its batch is not logged as processed, the run does not return,
\* and nothing is submitted after it.
C10_BatchFailsWhole ==
    \A j \in 1..Len(submitted) :
        ~IsSuccess(submitted[j].status) =>
            /\ bpc = "raised"
            /\ j = Len(submitted)
            /\ \A n \in 1..Len(processed) : processed[n] # submitted[j].no

\* the second batch of a run failed after the first was processed
C10_Witness ==
    /\ bpc = "raised"
    /\ Len(submitted) = 2
    /\ submitted[2].status = 500
    /\ processed = <<1>>

\* ============================================ claims on the single-item loops
ItemPosts == SelectSeq(posted, LAMBDA r : r.kind = "item")
Reported(id) == \E f \in DOMAIN failures : failures[f] = id

\* C8: every state-changing request (item write, attachment upload or delete)
\* carries a digest fetched from contextinfo after the previous state-changing
\* request: there are at least as many contextinfo fetches as requests sent,
\* and no two requests carry the same digest value.
C8_FreshDigest ==
    /\ contextinfo >= Len(posted)
    /\ \A i, j \in DOMAIN posted :
           i # j => posted[i].digest # posted[j].digest

\* C9: in a single-item write loop, an item write answered with a non-2xx
\* status is reported as a failure of that item and does not end the run: the
\* loop is not left by an exception, and a run that has returned has sent the
\* write of every item of its list.
C9_ContinuesAfterFailure ==
    \A j \in DOMAIN posted :
        (posted[j].kind = "item" /\ ~IsSuccess(posted[j].status)) =>
            /\ Reported(posted[j].id)
            /\ wpc # "raised"
            /\ wpc = "done" => Len(ItemPosts) = Len(write_list)

\* ============================================= claims on the batch sequence
Answered(r) == r.status \in Statuses

\* C11: batches are issued one after the other. Whenever the loop is about to
\* fetch a digest or to send a $batch POST, every batch sent before has been
\* answered (successfully, or the run would have ended); the j-th batch sent
\* is batch number j and carries the j-th digest fetched, so a digest is
\* never fetched ahead of the previous response; and the operations sent so
\* far are a prefix of the input, in input order.
C11_Sequential ==
    /\ \A j \in DOMAIN submitted :
           /\ submitted[j].no = j
           /\ submitted[j].digest = j
           /\ Answered(submitted[j])
           /\ j < Len(submitted) => IsSuccess(submitted[j].status)
    /\ issued \in {Len(submitted), Len(submitted) + 1}
    /\ bpc \in {"digest", "post"} =>
           \A j \in DOMAIN submitted : IsSuccess(submitted[j].status)
    /\ LET sent == Concat(BatchOps)
       IN  sent = SubSeq(items, 1, Len(sent))

C11_Witness ==
    /\ bpc = "post"
    /\ Len(submitted) = 2
    /\ issued = 3

\* =============================================== claims on get_list_items
AllOk == \A j \in DOMAIN page_reads : page_reads[j].status = 200
Saw(status) == \E j \in DOMAIN page_reads : page_reads[j].status = status

\* C12: when every page request is answered 200, get_list_items makes one
\* request per page, the first to the items endpoint and each next one to the
\* continuation of the page before, and returns the pages' items concatenated
\* in the server's order.
C12_Pagination ==
    (rpc = "returned" /\ AllOk) =>
        /\ Len(page_reads) = Len(pages)
        /\ \A j \in DOMAIN page_reads : page_reads[j].endpoint = j
        /\ all_items = Concat(pages)
        /\ \A j, k \in DOMAIN all_items : j # k => all_items[j] # all_items[k]

C12_Witness ==
    /\ rpc = "returned"
    /\ AllOk
    /\ Len(pages) = 3
    /\ Len(all_items) = 5

\* C13: once a page read has been answered 404 the function is left without
\* returning a list, whatever pages were read before.
C13_NotFoundFatal ==
    Saw(404) => /\ rpc \in {"raised", "exited"}
                /\ rerror # ""

C13_Witness ==
    /\ Saw(404)
    /\ Len(page_reads) >= 2
    /\ all_items # <<>>
    /\ rpc = "raised"

\* C14: a page read answered with a status other than 200 and 404 does not
\* end the run: the function is not left by an exception, and when it returns
\* it returns the items of the pages that were read with status 200.
C14_OtherStatusSkipped ==
    (\E j \in DOMAIN page_reads : page_reads[j].status \notin {200, 404}) =>
        /\ rpc \notin {"raised", "exited"}
        /\ rpc = "returned" =>
              all_items = Concat([j \in 1..Len(SelectSeq(page_reads,
                                      LAMBDA r : r.status = 200)) |->
                                  pages[SelectSeq(page_reads,
                                      LAMBDA r : r.status = 200)[j].endpoint]])

\* ============================================ claims on schema introspection
IntrospectionFunctions ==
    {"ListOperations.get_required_columns", "ListOperations.get_column_datatypes",
     "BaseList.get_required_columns", "BaseList.__get_column_datatypes",
     "SharePointOperations.get_required_columns"}

\* C15: whichever schema-introspection function is called, the internal name
\* it returns for a column is the field's property name with the Id suffix
\* when the field's kind is lookup (7) or user (20), and the bare property
\* name for every other kind.
C15_IdSuffix ==
    (schema_fn \in IntrospectionFunctions /\ schema_result.kind = "cols") =>
        \A j \in DOMAIN columns_info :
            LET column == columns_info[j] IN
            (schema_response.status = 200 /\ column.Title \in DOMAIN schema_result.cols) =>
                schema_result.cols[column.Title].name =
                    IF column.FieldTypeKind \in {7, 20}
                    THEN column.EntityPropertyName \o "Id"
                    ELSE column.EntityPropertyName

\* C16: a schema function whose read was answered with a status other than
\* 200 raises: it returns neither a column mapping nor an entity type token.
C16_SchemaReadFatal ==
    (schema_fn \notin {"", "idle"} /\ schema_response.status # 200) =>
        /\ schema_error # ""
        /\ schema_result = NoResult

\* ================================================ claims on the batch body
\* C17: a run of insert_items_in_batches or update_items_in_batches issues the
\* list-metadata read for the entity type at most once, however many batches
\* it builds.
C17_TokenFetchedOnce ==
    op \in {"insert", "update"} => metadata_reads <= 1

Verbs == {"POST items", "PATCH items(id)", "DELETE items(id)"}
PartStarts(body) == SelectSeq([j \in DOMAIN body |-> j],
                              LAMBDA j : body[j].text = "--changeset")
\* the lines of the k-th inner request: from its boundary up to the next one
PartLines(body, k) ==
    LET starts == PartStarts(body)
        stop == IF k < Len(starts) THEN starts[k + 1] - 1 ELSE Len(body) - 2
    IN  SubSeq(body, starts[k], stop)
Has(lines, text) == \E j \in DOMAIN lines : lines[j].text = text
RequestLines(lines) == SelectSeq(lines, LAMBDA l : l.text \in Verbs)
Count(body, text) == Len(SelectSeq(body, LAMBDA l : l.text = text))

\* C18: every batch body sent holds one changeset with one inner request per
\* operation of the batch, in the order of the operations: a POST to the items
\* collection for an insert, a PATCH to items(id) with X-HTTP-Method and
\* IF-MATCH: * for an update, a DELETE to items(id) with IF-MATCH: * for a
\* delete, the id being the id of the operation.
C18_BatchBody ==
    \A n \in DOMAIN submitted :
        LET body == submitted[n].body
            ops == submitted[n].ops
        IN  /\ Count(body, "Content-Type: multipart/mixed; boundary=changeset") = 1
            /\ Count(body, "--changeset--") = 1
            /\ \A j \in DOMAIN body :
                   body[j].text \in {"--changeset", "--changeset--"} =>
                       body[j].arg = body[2].arg
            /\ Len(PartStarts(body)) = Len(ops)
            /\ \A k \in DOMAIN ops :
                   LET lines == PartLines(body, k)
                       req == RequestLines(lines)
                   IN  /\ Len(req) = 1
                       /\ op = "insert" =>
                              req[1] = Line("POST items", 0)
                       /\ op = "update" =>
                              /\ req[1] = Line("PATCH items(id)", ops[k])
                              /\ Has(lines, "X-HTTP-Method: MERGE")
                              /\ Has(lines, "IF-MATCH: *")
                       /\ op = "delete" =>
                              /\ req[1] = Line("DELETE items(id)", ops[k])
                              /\ Has(lines, "IF-MATCH: *")

C18_Witness ==
    /\ op = "update"
    /\ Len(submitted) = 2
    /\ Len(submitted[1].ops) = 3
    /\ Len(submitted[2].ops) = 2

\* ============================================== claims on the Number column
NumberFields(item) ==
    {f \in (DOMAIN item) \cap (DOMAIN required_destination_cols) :
        required_destination_cols[f].dtype = "Number" /\ item[f].t = "str"}
Denotes(str) == CHOOSE n \in 0..MaxNum : ToString(n) = str

\* C19: in the insert built from a source item, a Number field holding a
\* numeric string is carried as the number it denotes; a Number field holding
\* a value that is no number is absent from the insert, and every other field
\* of the item that has a value is still carried.
C19_NumberCoercion ==
    DiffDone =>
        \A i \in ToInsert :
            LET ins == TheInsertOf(a[i]["Requirement Id"].v) IN
            \A f \in NumberFields(a[i]) :
                IF a[i][f].v \in DecimalStrings
                THEN /\ WireName(f) \in DOMAIN ins
                     /\ ins[WireName(f)] = PyInt(Denotes(a[i][f].v))
                ELSE /\ WireName(f) \notin DOMAIN ins
                     /\ \A g \in (DOMAIN a[i]) \ {f, "Modified"} :
                            ~IsEmpty(a[i][g]) => WireName(g) \in DOMAIN ins

\* ================================================= claims on attachments
\* x and y hold the same names the same number of times
SameMultiset(x, y) ==
    /\ Len(x) = Len(y)
    /\ \E p \in [DOMAIN x -> DOMAIN y] :
          /\ \A j, k \in DOMAIN x : j # k => p[j] # p[k]
          /\ \A j \in DOMAIN x : x[j] = y[p[j]]
Downloads(item) == {j \in DOMAIN fetched : fetched[j].id = item.Id}
Changes(item) ==
    {j \in DOMAIN posted : /\ posted[j].kind \in {"upload", "delete"}
                           /\ posted[j].id = item.second.Id}
Updated(item) ==
    \E j \in DOMAIN posted : /\ posted[j].kind = "item"
                             /\ posted[j].id = item.second.Id
                             /\ posted[j].status = 204

\* C20: in update_list_items no download, delete or upload is ever requested
\* for an item whose source and destination attachment lists are equal as
\* multisets, whatever their order; for an item that was updated and whose
\* lists differ, be it only in the multiplicity of a name, the reconciliation
\* is started: once the loop has left the item, a download or a delete has
\* been requested for it.
C20_ReconcileNoOp ==
    wloop = "SharePointOperations.update_list_items" =>
        \A k \in DOMAIN write_list :
            LET item == write_list[k] IN
            IF SameMultiset(item.atts, item.second.atts)
            THEN Downloads(item) = {} /\ Changes(item) = {}
            ELSE (Updated(item) /\ (k < widx \/ wpc = "raised")) =>
                    Downloads(item) # {} \/ Changes(item) # {}

\* an item with the same names in another order and an item with one name
\* twice against once have both been updated
C20_Witness ==
    /\ wloop = "SharePointOperations.update_list_items"
    /\ wpc = "done"
    /\ \E j, k \in DOMAIN write_list :
          /\ write_list[j].atts = <<"f1", "f2">>
          /\ write_list[j].second.atts = <<"f2", "f1">>
          /\ Updated(write_list[j])
          /\ write_list[k].atts = <<"f1", "f1">>
          /\ Updated(write_list[k])
          /\ Cardinality(Downloads(write_list[k])) = 2

\* names of the files uploaded to the destination item, in the order sent
Uploads(item) ==
    LET sent == SelectSeq(posted, LAMBDA r : r.kind = "upload" /\ r.id = item.second.Id)
    IN [j \in DOMAIN sent |-> sent[j].name]
Downloaded(item) ==
    \A j \in Downloads(item) : fetched[j].status = 200

\* C21: in update_list_items, for an item that was updated and whose source
\* and destination attachment multisets differ, once the loop has left the
\* item with every request answered successfully, the files uploaded to the
\* destination item are exactly the source item's attachments.
C21_UploadsSource ==
    wloop = "SharePointOperations.update_list_items" =>
        \A k \in DOMAIN write_list :
            LET item == write_list[k] IN
            (/\ k < widx
             /\ Updated(item)
             /\ Downloaded(item)
             /\ ~SameMultiset(item.atts, item.second.atts)) =>
                Uploads(item) = item.atts

\* C22: whenever insert_list_items or update_list_items is not in the middle
\* of the attachment transfer of an item (it is between items, has returned,
\* or was left by an exception), the temporary folder holds no file.
C22_TempReleased ==
    wpc # "files" => temp_folder = {}

\* ================================================== claims on TaskManager
Finished(f) == futures[f].state = "FINISHED"
\* results holds the outcome of every submitted task exactly once
OneEntryEach ==
    /\ Len(results) = Len(futures)
    /\ \A f \in DOMAIN futures :
          Cardinality({j \in DOMAIN results : results[j].task = f}) = 1
    /\ \A j \in DOMAIN results : results[j] = futures[results[j].task].outcome

C24_SnapshotsUntouched ==
    dpc = "diffed" =>
        /\ Len(b) = Len(b_before)
        /\ \A j \in DOMAIN b :
              /\ DOMAIN b[j] = DOMAIN b_before[j]
              /\ \A f \in DOMAIN b[j] : PyEq(b[j][f], b_before[j][f])

\* ================================================ claims on prepare_data
\* the value of the field, converted to the type of its column, is absent or
\* empty
AbsentOrEmpty(item, f) ==
    \/ item[f].t = "none"
    \/ item[f].t = "str" /\ item[f].v = ""
    \/ /\ required_destination_cols[f].dtype = "Number"
       /\ item[f].t = "str"
       /\ item[f].v \notin DecimalStrings

\* C26: Utils.prepare_data and List.prepare_data return a payload for every
\* item, and the payload holds a field of the item if and only if the
\* field's value is neither None nor the empty string; a field holding the
\* number 0 is in the payload.
C26_OmitsOnlyEmpty ==
    ppc = "done" =>
        /\ prep_error = ""
        /\ \A f \in DOMAIN prep_item :
              (InternalName(f) \in DOMAIN prep_result) <=> ~AbsentOrEmpty(prep_item, f)

\* =================================== claims on the end of get_list_items
\* C28: get_list_items never requests the same page twice, whatever the
\* statuses of the responses: a page answered with a status other than 200
\* that raises no error is not requested again.
C28_NoPageTwice ==
    \A i, j \in DOMAIN page_reads :
        i < j => page_reads[i].endpoint # page_reads[j].endpoint

\* =========================================== claims on the digest fetch
\* C30: the $batch POSTs sent are always a prefix of the batch sequence, each
\* batch sent once, in order, with the digest fetched for it; when the
\* digest fetch of batch i is answered with a status other than 200 the call
\* is left by the exception with batches 1..i-1 sent, all of them answered
\* successfully, and neither batch i nor a later one.
C30_DigestFailureStops ==
    /\ \A j \in DOMAIN submitted :
          /\ submitted[j].no = j
          /\ submitted[j].ops = SubSeq(items, (j - 1) * batch_size + 1,
                                       Min(j * batch_size, Len(items)))
          /\ submitted[j].digest = j
    /\ berror = "Exception" =>
          /\ bpc = "raised"
          /\ Len(submitted) = batch_no - 1
          /\ \A j \in DOMAIN submitted : IsSuccess(submitted[j].status)

\* the digest fetch of the second of three batches failed
C30_Witness ==
    /\ berror = "Exception"
    /\ bpc = "raised"
    /\ Len(submitted) = 1
    /\ batch_no = 2
    /\ Len(items) > 2 * batch_size

\* ============================================ claims on the write pacing
\* N, the batch size of the loop that runs
PaceEvery == IF wloop \in ListLoops THEN wbatch_size ELSE WaitEvery
WritesAt == {i \in DOMAIN pace : pace[i] = "write"}
CoolDownsAt == {i \in DOMAIN pace : pace[i] = "sleep 30"}
WritesBetween(i, j) == Cardinality({w \in WritesAt : i < w /\ w < j})

\* C25: in a single-item write loop every item write that was answered
\* without error is followed by the fixed delay; more than N writes are never
\* issued without a cool-down between them; two consecutive cool-downs have
\* exactly N writes between them.
C25_Pacing ==
    wloop \in Loops =>
        /\ \A w \in WritesAt :
              IF w < Len(pace) THEN pace[w + 1] = "sleep 2" ELSE wpc = "raised"
        /\ \A i, j \in WritesAt :
              (i < j /\ WritesBetween(i, j) = PaceEvery - 1) =>
                  \E c \in CoolDownsAt : i < c /\ c < j
        /\ \A c, d \in CoolDownsAt :
              (c < d /\ ~\E x \in CoolDownsAt : c < x /\ x < d) =>
                  WritesBetween(c, d) = PaceEvery

\* ========================================== claims on the item payloads
\* C27: the payload sent for item i holds, besides the entity-type metadata,
\* only keys of item i, each with the value item i gives it.
C27_OwnFieldsOnly ==
    wloop \in Loops =>
        \A k \in DOMAIN ItemPosts :
            LET item == write_list[k]
                sent == ItemPosts[k].payload
            IN  /\ (DOMAIN sent) \ {"__metadata", "Attachments"} \subseteq DOMAIN item.fields
                /\ \A f \in (DOMAIN sent) \cap (DOMAIN item.fields) :
                      sent[f] = item.fields[f]

\* ============================= claims on the order of the reconciliation
\* C29: in update_list_items, when a delete or an upload has been sent for a
\* destination item, every attachment of the source item has been downloaded
\* before (requested and answered with the file), and no delete follows an
\* upload of the same item.
C29_DownloadBeforeDelete ==
    wloop = "SharePointOperations.update_list_items" =>
        \A k \in DOMAIN write_list :
            LET item == write_list[k] IN
            /\ Changes(item) # {} =>
                  /\ Cardinality(Downloads(item)) = Len(item.atts)
                  /\ Downloaded(item)
            /\ \A i, j \in Changes(item) :
                  i < j => ~(posted[i].kind = "upload" /\ posted[j].kind = "delete")

====
